---- MODULE Spec2Model ----
(***************************************************************************)
(* Model of logger.go of upper/db: the LogLevel constants and name table,  *)
(* the loggingCollector (level, logger, the seven severity methods and the *)
(* shared log routine) and QueryStatus.String.                             *)
(*                                                                         *)
(* Strings built by concatenation are modelled as tuples of their parts,   *)
(* so "WARN" + "\n" + "x=%d" is <<"WARN", "\n", "x=%d">>.                  *)
(***************************************************************************)
EXTENDS Integers, Sequences, FiniteSets, TLC

VARIABLES
    level,      \* loggingCollector.level
    logger,     \* loggingCollector.logger (Nil or a Logger)
    alive,      \* FALSE once the process has exited (Fatalf) or died of a panic
    lastSet,    \* history: argument of the last SetLogger call, "unset" before any
    dispatch,   \* history: the last call of log: its level, f, v, and c.level / lastSet on entry
    calls,      \* history: the Logger calls made by the last call of log, in order
    outcome,    \* history: how the last call of log ended
    pc,         \* position of the logging goroutine inside log (interleaved runs only)
    format,     \* log's local variable format (interleaved runs only)
    q,          \* the QueryStatus under inspection
    now,        \* wall clock
    outs        \* history: results of q.String(), each with the time of the call

vars == <<level, logger, alive, lastSet, dispatch, calls, outcome,
          pc, format, q, now, outs>>

collectorVars == <<level, logger, alive, lastSet, dispatch, calls, outcome>>
raceVars == <<pc, format>>
queryVars == <<q, now, outs>>

Nil == "nil"

(***************************************************************************)
(* LogLevel constants.  Inside a Go const block iota is the index of the   *)
(* ConstSpec, counted from the first one of the block.                     *)
(***************************************************************************)
ConstBlock ==
    <<"LogLevelTrace", "LogLevelDebug", "LogLevelInfo", "LogLevelWarn",
      "LogLevelError", "LogLevelFatal", "LogLevelPanic">>

iota(name) == (CHOOSE i \in 1..Len(ConstBlock) : ConstBlock[i] = name) - 1

LogLevelTrace == -1
LogLevelDebug == iota("LogLevelDebug")
LogLevelInfo  == iota("LogLevelInfo")
LogLevelWarn  == iota("LogLevelWarn")
LogLevelError == iota("LogLevelError")
LogLevelFatal == iota("LogLevelFatal")
LogLevelPanic == iota("LogLevelPanic")

logLevels ==
    (LogLevelTrace :> "TRACE") @@ (LogLevelDebug :> "DEBUG") @@
    (LogLevelInfo :> "INFO") @@ (LogLevelWarn :> "WARN") @@
    (LogLevelError :> "ERROR") @@ (LogLevelFatal :> "FATAL") @@
    (LogLevelPanic :> "PANIC")

\* logLevels[l] of a Go map: the zero value "" for a missing key
LevelName(l) == IF l \in DOMAIN logLevels THEN logLevels[l] ELSE ""

defaultLogLevel == LogLevelWarn

\* The levels the seven severity methods pass to log
MethodLevels ==
    {LogLevelTrace, LogLevelDebug, LogLevelInfo, LogLevelWarn,
     LogLevelError, LogLevelFatal, LogLevelPanic}

\* Arguments of SetLevel: LogLevel is an int8, so values without a name too
LevelInputs == (LogLevelTrace - 1) .. (LogLevelPanic + 1)

(***************************************************************************)
(* Loggers.  defaultLogger is a *log.Logger: Panicf panics after printing, *)
(* Fatalf exits the process after printing.  bufLogger stands for an       *)
(* implementation of the interface whose three methods all return;         *)
(* wrapLogger for one that behaves as a *log.Logger does.                  *)
(***************************************************************************)
defaultLogger == "defaultLogger"
bufLogger == "bufLogger"
wrapLogger == "wrapLogger"

Loggers == {defaultLogger, bufLogger, wrapLogger}

PanicfReturns(s) == s = bufLogger
FatalfReturns(s) == s = bufLogger

\* Inputs of the severity methods
Templates == {"x=%d", Nil}
ArgLists == {<<>>, <<5>>}

\* fmt.Sprintf("%v", f)
Sprint(f) == IF f = Nil THEN "<nil>" ELSE f

NoDispatch == [level |-> LogLevelTrace - 1, f |-> Nil, v |-> <<>>,
               T |-> LogLevelTrace - 1, lastSet |-> "unset"]

Call(s, m, fm, v) == [sink |-> s, method |-> m, format |-> fm, args |-> v]

(***************************************************************************)
(* loggingCollector                                                        *)
(***************************************************************************)
Level == level

LoggerNoFallback == logger

Logger == IF logger = Nil THEN defaultLogger ELSE logger

SetLevel(l) ==
    /\ alive
    /\ level' = l
    /\ UNCHANGED <<logger, alive, lastSet, dispatch, calls, outcome>>
    /\ UNCHANGED raceVars
    /\ UNCHANGED queryVars

SetLogger(s) ==
    /\ alive
    /\ logger' = s
    /\ lastSet' = s
    /\ UNCHANGED <<level, alive, dispatch, calls, outcome>>
    /\ UNCHANGED raceVars
    /\ UNCHANGED queryVars

EscalateExclusive(T, s, fm, v) ==
    IF T >= LogLevelPanic
    THEN [calls |-> <<Call(s, "Panicf", fm, v)>>,
          outcome |-> IF PanicfReturns(s) THEN "returned" ELSE "panicked"]
    ELSE IF T >= LogLevelFatal
    THEN [calls |-> <<Call(s, "Fatalf", fm, v)>>,
          outcome |-> IF FatalfReturns(s) THEN "returned" ELSE "exited"]
    ELSE [calls |-> <<Call(s, "Printf", fm, v)>>, outcome |-> "returned"]

\* The body of log after the filter, run without interruption: the Logger
\* calls it makes and how it ends.
Escalate(T, s, fm, v) ==
    LET p == Call(s, "Panicf", fm, v)
        f == Call(s, "Fatalf", fm, v)
        r == Call(s, "Printf", fm, v)
        afterFatal(done) ==
            IF T >= LogLevelFatal
            THEN IF FatalfReturns(s)
                 THEN [calls |-> done \o <<f, r>>, outcome |-> "returned"]
                 ELSE [calls |-> done \o <<f>>, outcome |-> "exited"]
            ELSE [calls |-> done \o <<r>>, outcome |-> "returned"]
    IN  IF T >= LogLevelPanic
        THEN IF PanicfReturns(s)
             THEN afterFatal(<<p>>)
             ELSE [calls |-> <<p>>, outcome |-> "panicked"]
        ELSE afterFatal(<<>>)

FilterNever(lv, T) == FALSE
FilterInclusive(lv, T) == lv <= T

\* line 190: level < c.level
Suppressed(lv, T) == lv < T

LabelByCall(lv, T) == lv

\* line 193: the level whose name becomes the label
LabelLevel(lv, T) == T

log(lv, f, v) ==
    /\ alive
    /\ pc = "idle"
    /\ dispatch' = [level |-> lv, f |-> f, v |-> v, T |-> level, lastSet |-> lastSet]
    /\ IF Suppressed(lv, level)
       THEN /\ calls' = <<>>
            /\ outcome' = "suppressed"
            /\ alive' = alive
       ELSE LET fm == <<LevelName(LabelLevel(lv, level)), "\n", Sprint(f)>>
                run == Escalate(level, Logger, fm, v)
            IN  /\ calls' = run.calls
                /\ outcome' = run.outcome
                /\ CASE run.outcome = "exited" -> alive' = FALSE
                     [] run.outcome = "panicked" -> alive' \in BOOLEAN  \* recovered or not
                     [] OTHER -> alive' = alive
    /\ UNCHANGED <<level, logger, lastSet>>
    /\ UNCHANGED raceVars
    /\ UNCHANGED queryVars

Debug == \E f \in Templates, v \in ArgLists : log(LogLevelDebug, f, v)
Trace == \E f \in Templates, v \in ArgLists : log(LogLevelTrace, f, v)
Info  == \E f \in Templates, v \in ArgLists : log(LogLevelInfo, f, v)
Warn  == \E f \in Templates, v \in ArgLists : log(LogLevelWarn, f, v)
Error == \E f \in Templates, v \in ArgLists : log(LogLevelError, f, v)
Fatal == \E f \in Templates, v \in ArgLists : log(LogLevelFatal, f, v)
Panic == \E f \in Templates, v \in ArgLists : log(LogLevelPanic, f, v)

ZeroQueryStatus ==
    [SessID |-> 0, TxID |-> 0, RowsAffected |-> <<>>, LastInsertID |-> <<>>,
     Query |-> <<>>, Args |-> <<>>, Err |-> <<>>, Start |-> 0, End |-> 0,
     Context |-> <<>>]

\* defaultLoggingCollector
Init ==
    /\ level = defaultLogLevel
    /\ logger = defaultLogger
    /\ alive = TRUE
    /\ lastSet = "unset"
    /\ dispatch = NoDispatch
    /\ calls = <<>>
    /\ outcome = "none"
    /\ pc = "idle"
    /\ format = <<>>
    /\ q = ZeroQueryStatus
    /\ now = 0
    /\ outs = <<>>

DoSetLevel == \E l \in LevelInputs : SetLevel(l)
DoSetLogger == \E s \in Loggers \cup {Nil} : SetLogger(s)

Next ==
    \/ DoSetLevel
    \/ DoSetLogger
    \/ Trace
    \/ Debug
    \/ Info
    \/ Warn
    \/ Error
    \/ Fatal
    \/ Panic

Spec == Init /\ [][Next]_vars

(***************************************************************************)
(* log running in one goroutine while another calls SetLevel with no       *)
(* synchronization: log is split at its reads of c.level (lines 190, 193,  *)
(* 195, 198), and each read sees the value the field holds at that moment. *)
(***************************************************************************)
\* line 190
RaceEnter(lv, f, v) ==
    /\ alive
    /\ pc = "idle"
    /\ dispatch' = [level |-> lv, f |-> f, v |-> v, T |-> level, lastSet |-> lastSet]
    /\ calls' = <<>>
    /\ format' = <<>>
    /\ IF Suppressed(lv, level)
       THEN pc' = "idle" /\ outcome' = "suppressed"
       ELSE pc' = "format" /\ outcome' = "running"
    /\ UNCHANGED <<level, logger, alive, lastSet>>
    /\ UNCHANGED queryVars

LabelAtEntry ==
    /\ alive
    /\ pc = "format"
    /\ format' = <<LevelName(dispatch.T), "\n", Sprint(dispatch.f)>>
    /\ pc' = "panic"
    /\ UNCHANGED collectorVars
    /\ UNCHANGED queryVars

\* line 193
RaceFormat ==
    /\ alive
    /\ pc = "format"
    /\ format' = <<LevelName(LabelLevel(dispatch.level, level)), "\n", Sprint(dispatch.f)>>
    /\ pc' = "panic"
    /\ UNCHANGED collectorVars
    /\ UNCHANGED queryVars

\* lines 195-197
RacePanicf ==
    /\ alive
    /\ pc = "panic"
    /\ IF level >= LogLevelPanic
       THEN /\ calls' = Append(calls, Call(Logger, "Panicf", format, dispatch.v))
            /\ IF PanicfReturns(Logger)
               THEN pc' = "fatal" /\ UNCHANGED <<outcome, alive, format>>
               ELSE /\ pc' = "idle"
                    /\ outcome' = "panicked"
                    /\ format' = <<>>
                    /\ alive' \in BOOLEAN
       ELSE pc' = "fatal" /\ UNCHANGED <<calls, outcome, alive, format>>
    /\ UNCHANGED <<level, logger, lastSet, dispatch>>
    /\ UNCHANGED queryVars

\* lines 198-200
RaceFatalf ==
    /\ alive
    /\ pc = "fatal"
    /\ IF level >= LogLevelFatal
       THEN /\ calls' = Append(calls, Call(Logger, "Fatalf", format, dispatch.v))
            /\ IF FatalfReturns(Logger)
               THEN pc' = "print" /\ UNCHANGED <<outcome, alive, format>>
               ELSE /\ pc' = "idle"
                    /\ outcome' = "exited"
                    /\ format' = <<>>
                    /\ alive' = FALSE
       ELSE pc' = "print" /\ UNCHANGED <<calls, outcome, alive, format>>
    /\ UNCHANGED <<level, logger, lastSet, dispatch>>
    /\ UNCHANGED queryVars

\* lines 201-202
RacePrintf ==
    /\ alive
    /\ pc = "print"
    /\ calls' = Append(calls, Call(Logger, "Printf", format, dispatch.v))
    /\ pc' = "idle"
    /\ outcome' = "returned"
    /\ format' = <<>>
    /\ UNCHANGED <<level, logger, alive, lastSet, dispatch>>
    /\ UNCHANGED queryVars

RaceCall ==
    \E lv \in MethodLevels, f \in Templates, v \in ArgLists : RaceEnter(lv, f, v)

NextRace ==
    \/ DoSetLevel
    \/ RaceCall
    \/ RaceFormat
    \/ RacePanicf
    \/ RaceFatalf
    \/ RacePrintf

\* The race starts once the program has installed its Logger, if it installs one
InitRace ==
    /\ level = defaultLogLevel
    /\ \/ logger = defaultLogger /\ lastSet = "unset"
       \/ \E s \in Loggers \cup {Nil} : logger = s /\ lastSet = s
    /\ alive = TRUE
    /\ dispatch = NoDispatch
    /\ calls = <<>>
    /\ outcome = "none"
    /\ pc = "idle"
    /\ format = <<>>
    /\ q = ZeroQueryStatus
    /\ now = 0
    /\ outs = <<>>

SpecRace == InitRace /\ [][NextRace]_vars

(***************************************************************************)
(* QueryStatus.String.  A string is a sequence of one-character strings;   *)
(* a line of the report is the sequence <<format>> \o argument text; a nil *)
(* pointer or nil interface is the empty sequence, a non-nil one the       *)
(* one-element sequence of its value.                                      *)
(***************************************************************************)
MaxNow == 2
MaxRenders == 2

fmtLogSessID       == "Session ID:     %05d"
fmtLogTxID         == "Transaction ID: %05d"
fmtLogQuery        == "Query:          %s"
fmtLogArgs         == "Arguments:      %#v"
fmtLogRowsAffected == "Rows affected:  %d"
fmtLogLastInsertID == "Last insert ID: %d"
fmtLogError        == "Error:          %v"
fmtLogTimeTaken    == "Time taken:     %0.5fs"
fmtLogContext      == "Context:        %v"

DigitChars == <<"0", "1", "2", "3", "4", "5", "6", "7", "8", "9">>

RECURSIVE Decimal(_)
\* %d of n >= 0
Decimal(n) ==
    IF n < 10 THEN <<DigitChars[n + 1]>>
    ELSE Decimal(n \div 10) \o <<DigitChars[(n % 10) + 1]>>

RECURSIVE ZeroPad(_, _)
ZeroPad(s, w) == IF Len(s) >= w THEN s ELSE ZeroPad(<<"0">> \o s, w)

\* %05d
Pad5(n) == ZeroPad(Decimal(n), 5)

\* %0.5f of ns / 1e9
Seconds5(ns) ==
    LET a == IF ns < 0 THEN -ns ELSE ns
        units == (a + 5000) \div 10000
    IN  (IF ns < 0 /\ units > 0 THEN <<"-">> ELSE <<>>)
        \o Decimal(units \div 100000) \o <<".">> \o ZeroPad(Decimal(units % 100000), 5)

\* the class [\s\r\n\t] of reInvisibleChars, and the spaces TrimSpace cuts
IsSpace(c) == c \in {" ", "\t", "\n", "\r"}

RECURSIVE DropSpaces(_)
DropSpaces(s) ==
    IF s # <<>> /\ IsSpace(Head(s)) THEN DropSpaces(Tail(s)) ELSE s

RECURSIVE ReplaceInvisible(_)
\* reInvisibleChars.ReplaceAllString(query, ` `)
ReplaceInvisible(s) ==
    IF s = <<>> THEN <<>>
    ELSE IF IsSpace(Head(s)) THEN <<" ">> \o ReplaceInvisible(DropSpaces(s))
    ELSE <<Head(s)>> \o ReplaceInvisible(Tail(s))

RECURSIVE Reverse(_)
Reverse(s) == IF s = <<>> THEN <<>> ELSE Reverse(Tail(s)) \o <<Head(s)>>

\* strings.TrimSpace
TrimSpace(s) == Reverse(DropSpaces(Reverse(DropSpaces(s))))

deadlineCtx == "deadline"
backgroundCtx == "background"

\* %v of a context.Context is its String(): a context with a deadline prints
\* the deadline and the time left until it at the moment of the call.
ContextString(ctx, t) ==
    IF ctx = deadlineCtx
    THEN <<"context.Background.WithDeadline(">> \o Decimal(MaxNow)
            \o <<" [">> \o Decimal(MaxNow - t) \o <<"])">>
    ELSE <<"context.Background">>

\* %#v of a []interface{}
GoSyntax(args) == <<"[]interface {}{">> \o args \o <<"}">>

SessIDLines(s) == IF s.SessID > 0 THEN <<(<<fmtLogSessID>> \o Pad5(s.SessID))>> ELSE <<>>

TxIDLines(s) == IF s.TxID > 0 THEN <<(<<fmtLogTxID>> \o Pad5(s.TxID))>> ELSE <<>>

QueryLines(s) ==
    IF s.Query # <<>>
    THEN <<(<<fmtLogQuery>> \o TrimSpace(ReplaceInvisible(s.Query)))>>
    ELSE <<>>

ArgsLinesAlways(s) == <<(<<fmtLogArgs>> \o GoSyntax(s.Args))>>

ArgsLines(s) ==
    IF Len(s.Args) > 0 THEN <<(<<fmtLogArgs>> \o GoSyntax(s.Args))>> ELSE <<>>

RowsAffectedLines(s) ==
    IF s.RowsAffected # <<>>
    THEN <<(<<fmtLogRowsAffected>> \o Decimal(s.RowsAffected[1]))>>
    ELSE <<>>

LastInsertIDLines(s) ==
    IF s.LastInsertID # <<>>
    THEN <<(<<fmtLogLastInsertID>> \o Decimal(s.LastInsertID[1]))>>
    ELSE <<>>

ErrLines(s) == IF s.Err # <<>> THEN <<(<<fmtLogError>> \o s.Err)>> ELSE <<>>

TimeTakenLines(s) == <<(<<fmtLogTimeTaken>> \o Seconds5(s.End - s.Start))>>

ContextLines(s, t) ==
    IF s.Context # <<>>
    THEN <<(<<fmtLogContext>> \o ContextString(s.Context[1], t))>>
    ELSE <<>>

RECURSIVE Join(_, _)
\* strings.Join(lines, sep), each line and sep one element of the result
Join(lines, sep) ==
    IF Len(lines) <= 1 THEN lines
    ELSE <<Head(lines), sep>> \o Join(Tail(lines), sep)

RECURSIVE Replace(_, _, _)
\* strings.Replace(s, old, new, -1) on the elements
Replace(s, old, new) ==
    IF s = <<>> THEN <<>>
    ELSE (IF Head(s) = old THEN new ELSE <<Head(s)>>) \o Replace(Tail(s), old, new)

\* (*QueryStatus).String called at time t
String(s, t) ==
    LET lines == SessIDLines(s) \o TxIDLines(s) \o QueryLines(s) \o ArgsLines(s)
                 \o RowsAffectedLines(s) \o LastInsertIDLines(s) \o ErrLines(s)
                 \o TimeTakenLines(s) \o ContextLines(s, t)
    IN  <<(<<"\t">>)>>
        \o Replace(Join(lines, <<"\n">>), <<"\n">>, <<(<<"\n">>), (<<"\t">>)>>)
        \o <<(<<"\n">>), (<<"\n">>)>>

QueryStatuses ==
    [SessID : {0, 7}, TxID : {0, 12345},
     RowsAffected : {<<>>, <<0>>}, LastInsertID : {<<>>, <<9>>},
     Query : {<<>>, <<" ">>, <<"S", " ", " ", "1", "\n">>},
     Args : {<<>>, <<"1">>},
     Err : {<<>>, <<"EOF">>},
     Start : {1000000000}, End : {1000000000, 1250000000},
     Context : {<<>>, <<backgroundCtx>>, <<deadlineCtx>>}]

InitQuery ==
    /\ level = defaultLogLevel
    /\ logger = defaultLogger
    /\ alive = TRUE
    /\ lastSet = "unset"
    /\ dispatch = NoDispatch
    /\ calls = <<>>
    /\ outcome = "none"
    /\ pc = "idle"
    /\ format = <<>>
    /\ q \in QueryStatuses
    /\ now = 0
    /\ outs = <<>>

CallString ==
    /\ Len(outs) < MaxRenders
    /\ outs' = Append(outs, [at |-> now, text |-> String(q, now)])
    /\ UNCHANGED <<q, now>>
    /\ UNCHANGED collectorVars
    /\ UNCHANGED raceVars

\* time passes between calls
Tick ==
    /\ now < MaxNow
    /\ now' = now + 1
    /\ UNCHANGED <<q, outs>>
    /\ UNCHANGED collectorVars
    /\ UNCHANGED raceVars

NextQuery ==
    \/ CallString
    \/ Tick

SpecQuery == InitQuery /\ [][NextQuery]_vars

(***************************************************************************)
(* Properties of the collector, each run of log uninterrupted (Spec)       *)
(***************************************************************************)
Emitted == dispatch # NoDispatch /\ dispatch.level >= dispatch.T
Methods == [i \in 1..Len(calls) |-> calls[i].method]
Called(m) == \E i \in 1..Len(calls) : calls[i].method = m
CustomLoggers == Loggers \ {defaultLogger}

\* C1: a severity method of level L makes no Logger call when L is below the
\* threshold T in force, and at least one Logger call when L >= T.
C1_Filter ==
    dispatch # NoDispatch =>
        /\ dispatch.level < dispatch.T => calls = <<>>
        /\ dispatch.level >= dispatch.T => Len(calls) >= 1

C1_Witness ==
    /\ dispatch.T = LogLevelError
    /\ dispatch.level = LogLevelFatal
    /\ Len(calls) >= 1

\* C2 as stated: with named levels L1 <= L2 (L1 = L2 included), threshold L2
\* and a call at L1, no Logger method is called.
C2_Original ==
    (/\ dispatch # NoDispatch
     /\ dispatch.T \in MethodLevels
     /\ dispatch.level <= dispatch.T) => calls = <<>>

\* C2 amended: with named levels L1 < L2, threshold L2 and a call at L1, no
\* Logger method is called.
C2_StrictlyBelow ==
    (/\ dispatch # NoDispatch
     /\ dispatch.T \in MethodLevels
     /\ dispatch.level < dispatch.T) => (calls = <<>> /\ outcome = "suppressed")

C2_Witness ==
    /\ dispatch.T = LogLevelPanic
    /\ dispatch.level = LogLevelFatal
    /\ outcome = "suppressed"

\* C3: a call at exactly the threshold makes exactly one Logger call in
\* total, also when the Logger's Fatalf and Panicf return.
C3_ExactlyOne ==
    (dispatch # NoDispatch /\ dispatch.level = dispatch.T) => Len(calls) = 1

\* C4: after SetLogger(S) with a custom S and a threshold <= ERROR,
\* Error("x=%d", 5) makes a call on S with template "ERROR\nx=%d" and
\* args [5], and no call on the default Logger.
C4_ErrorRouting ==
    (/\ dispatch.level = LogLevelError
     /\ dispatch.f = "x=%d"
     /\ dispatch.v = <<5>>
     /\ dispatch.lastSet \in CustomLoggers
     /\ dispatch.T <= LogLevelError) =>
        /\ \E i \in 1..Len(calls) :
              /\ calls[i].sink = dispatch.lastSet
              /\ calls[i].method \in {"Printf", "Fatalf"}
              /\ calls[i].format = <<"ERROR", "\n", "x=%d">>
              /\ calls[i].args = <<5>>
        /\ \A i \in 1..Len(calls) : calls[i].sink # defaultLogger

\* C5: the levels have the values TRACE=-1, DEBUG=0, INFO=1, WARN=2, ERROR=3,
\* FATAL=4, PANIC=5 and each has its uppercase name in the name table; so a
\* collector still at its default threshold reports Level() = 2.
C5_LevelValues ==
    /\ Level = defaultLogLevel => Level = 2
    /\ LogLevelTrace = -1 /\ LevelName(LogLevelTrace) = "TRACE"
    /\ LogLevelDebug = 0 /\ LevelName(LogLevelDebug) = "DEBUG"
    /\ LogLevelInfo = 1 /\ LevelName(LogLevelInfo) = "INFO"
    /\ LogLevelWarn = 2 /\ LevelName(LogLevelWarn) = "WARN"
    /\ LogLevelError = 3 /\ LevelName(LogLevelError) = "ERROR"
    /\ LogLevelFatal = 4 /\ LevelName(LogLevelFatal) = "FATAL"
    /\ LogLevelPanic = 5 /\ LevelName(LogLevelPanic) = "PANIC"

\* C6: Logger() is never nil: it is the last Logger set when that one is not
\* nil and the default Logger otherwise, and every call a dispatch makes goes
\* to the Logger so determined on its entry.
C6_LoggerNeverNil ==
    /\ Logger # Nil
    /\ lastSet \in Loggers => Logger = lastSet
    /\ lastSet \notin Loggers => Logger = defaultLogger
    /\ \A i \in 1..Len(calls) :
          /\ calls[i].sink # Nil
          /\ calls[i].sink = IF dispatch.lastSet \in Loggers
                             THEN dispatch.lastSet ELSE defaultLogger

C6_Witness ==
    /\ lastSet = Nil
    /\ dispatch.lastSet = Nil
    /\ Len(calls) >= 1
    /\ calls[1].sink = defaultLogger

LabelledByThreshold ==
    \A i \in 1..Len(calls) :
        calls[i].format = <<LevelName(dispatch.T), "\n", Sprint(dispatch.f)>>

\* C8 as stated: for an emitted message the label is the threshold's name,
\* Panicf is called iff T >= PANIC and Fatalf is called iff T >= FATAL.
C8_Original ==
    Emitted =>
        /\ LabelledByThreshold
        /\ Called("Panicf") <=> dispatch.T >= LogLevelPanic
        /\ Called("Fatalf") <=> dispatch.T >= LogLevelFatal
        /\ (dispatch.level >= LogLevelFatal /\ dispatch.T < LogLevelFatal)
              => Methods = <<"Printf">>
        /\ dispatch.T = LogLevelPanic
              => (Called("Panicf") /\ calls[1].format[1] = "PANIC")

\* C8 amended: for an emitted message the label is the threshold's name,
\* Panicf is called iff T >= PANIC, and Fatalf is called iff T >= FATAL and,
\* when T >= PANIC, Panicf returned control to log.
C8_ByThreshold ==
    Emitted =>
        /\ LabelledByThreshold
        /\ Called("Panicf") <=> dispatch.T >= LogLevelPanic
        /\ Called("Fatalf") <=>
              /\ dispatch.T >= LogLevelFatal
              /\ dispatch.T >= LogLevelPanic => PanicfReturns(calls[1].sink)
        /\ (dispatch.level >= LogLevelFatal /\ dispatch.T < LogLevelFatal)
              => Methods = <<"Printf">>
        /\ dispatch.T = LogLevelPanic
              => (Called("Panicf") /\ calls[1].format[1] = "PANIC")

C8_Witness ==
    /\ dispatch.level = LogLevelPanic
    /\ dispatch.T = LogLevelInfo
    /\ Methods = <<"Printf">>
    /\ calls[1].format[1] = "INFO"

SameMessage ==
    \A i \in 1..Len(calls) :
        /\ calls[i].format = calls[1].format
        /\ calls[i].args = dispatch.v
        /\ calls[i].sink = calls[1].sink

\* C9: with a Logger whose Panicf and Fatalf return, an emitted dispatch
\* calls Panicf, Fatalf, Printf in that order when the threshold is PANIC,
\* Fatalf then Printf when it is FATAL, and Printf alone below FATAL, every
\* call with the same template and args.
C9_EscalationOrder ==
    (/\ Emitted
     /\ calls # <<>>
     /\ PanicfReturns(calls[1].sink)
     /\ FatalfReturns(calls[1].sink)) =>
        /\ SameMessage
        /\ dispatch.T >= LogLevelPanic => Methods = <<"Panicf", "Fatalf", "Printf">>
        /\ dispatch.T = LogLevelFatal => Methods = <<"Fatalf", "Printf">>
        /\ dispatch.T < LogLevelFatal => Methods = <<"Printf">>

C9_Witness ==
    /\ dispatch.T = LogLevelPanic
    /\ Methods = <<"Panicf", "Fatalf", "Printf">>
    /\ calls[1].sink = bufLogger
    /\ dispatch.v = <<5>>

(***************************************************************************)
(* Properties of QueryStatus.String (SpecQuery)                            *)
(***************************************************************************)
FieldOrder ==
    <<fmtLogSessID, fmtLogTxID, fmtLogQuery, fmtLogArgs, fmtLogRowsAffected,
      fmtLogLastInsertID, fmtLogError, fmtLogTimeTaken, fmtLogContext>>

FieldGuard(s, f) ==
    CASE f = fmtLogSessID -> s.SessID > 0
      [] f = fmtLogTxID -> s.TxID > 0
      [] f = fmtLogQuery -> s.Query # <<>>
      [] f = fmtLogArgs -> Len(s.Args) > 0
      [] f = fmtLogRowsAffected -> s.RowsAffected # <<>>
      [] f = fmtLogLastInsertID -> s.LastInsertID # <<>>
      [] f = fmtLogError -> s.Err # <<>>
      [] f = fmtLogTimeTaken -> TRUE
      [] f = fmtLogContext -> s.Context # <<>>

IsFieldLine(tok) == \E k \in 1..Len(FieldOrder) : tok[1] = FieldOrder[k]

\* the formats of the field lines of a report, in the order they appear
FieldsOf(text) ==
    LET ls == SelectSeq(text, IsFieldLine)
    IN  [k \in 1..Len(ls) |-> ls[k][1]]

ExpectedFields(s) == SelectSeq(FieldOrder, LAMBDA f : FieldGuard(s, f))

GuardedLines ==
    \A i \in 1..Len(outs) :
        LET fs == FieldsOf(outs[i].text)
        IN  /\ fs = ExpectedFields(q)
            /\ Len(fs) >= 1 /\ Len(fs) <= 9
            /\ \E k \in 1..Len(fs) : fs[k] = fmtLogTimeTaken

\* C7 as stated: String() gives one line per field whose guard holds, none
\* for the others, in the fixed order, between 1 and 9 of them with Time
\* taken always there, and two calls on the same value give the same text.
C7_Original ==
    /\ GuardedLines
    /\ \A i, j \in 1..Len(outs) : outs[i].text = outs[j].text

\* C7 amended: as stated, but two calls on the same value give the same text
\* when Context is nil or prints the same at both calls.
C7_FieldLines ==
    /\ GuardedLines
    /\ \A i, j \in 1..Len(outs) :
          (\/ q.Context = <<>>
           \/ ContextString(q.Context[1], outs[i].at)
                 = ContextString(q.Context[1], outs[j].at))
          => outs[i].text = outs[j].text

C7_Witness ==
    /\ Len(outs) = 2
    /\ outs[1].at < outs[2].at
    /\ q.Context = <<backgroundCtx>>
    /\ q.Args = <<>>
    /\ q.SessID > 0
    /\ q.TxID = 0
    /\ FieldsOf(outs[2].text) = <<fmtLogSessID, fmtLogTimeTaken, fmtLogContext>>

(***************************************************************************)
(* Properties of log racing with SetLevel (SpecRace)                       *)
(***************************************************************************)
\* C10: log reads c.level anew for the filter, for the label and for each
\* escalation check, so every one of these steps goes by the threshold in
\* force at that step; the witness is a dispatch that passed the filter
\* under one threshold and was labelled and escalated by another, above the
\* call's own level.
C10_SeparateReads ==
    [][/\ (pc = "idle" /\ pc' = "format") => dispatch'.level >= level
       /\ (pc = "format" /\ pc' = "panic") => format'[1] = LevelName(level)
       /\ (pc = "panic" /\ pc' # "panic")
             => (Len(calls') > Len(calls) <=> level >= LogLevelPanic)
       /\ (pc = "fatal" /\ pc' # "fatal")
             => (Len(calls') > Len(calls) <=> level >= LogLevelFatal)]_vars

C10_Witness ==
    /\ pc = "idle"
    /\ dispatch.level = LogLevelWarn
    /\ dispatch.T = LogLevelWarn
    /\ Called("Panicf")
    /\ calls[1].format[1] = "PANIC"

====
